---- MODULE Spec2Model ----
(***************************************************************************)
(* Model of lib/structures/ScheduledEvent.js: the status derivation        *)
(* (getStatus), the confirmation view (getConfirms) and the two-store      *)
(* deletion (deleteEvent).  Times are in milliseconds, as moment keeps     *)
(* them; the stores behind db.events and db.confirms are modelled by the   *)
(* rows they hold for this event's id.                                     *)
(***************************************************************************)
EXTENDS Integers, Sequences, FiniteSets, TLC

VARIABLES
    ev,          \* the ScheduledEvent object (fields set by the constructor)
    margin,      \* cfg.happening_margin, in milliseconds
    clock,       \* wall clock, the value moment() reads, in milliseconds
    st,          \* the last getStatus() call: the two clock reads, the result, and the result before
    eventRecord, \* event store: TRUE iff it holds a record for this.id
    responses,   \* per user: the ConfirmRecord ("yes"/"no") or waiting-list entry for this.id
    deleteEventPromise,    \* line 150
    deleteConfirmsPromise, \* line 151
    deleteAll,             \* the Promise.all of line 153
    deleteOut,             \* the promise deleteEvent() returned
    getConfirmsPromise,    \* line 115
    getWaitingPromise,     \* line 116
    getAll,                \* the Promise.all of line 118
    getOut,                \* the promise getConfirms() returned
    summaryMsgId, \* event store: the summary message id kept for this.id, or null
    lobbyStatus,  \* event store: the lobby status kept for this event, or null
    passCall,     \* the pass-through method in flight (getMsgId, updateMsgId, ...) and its argument
    storePromise, \* the promise its store call returned
    passOut,      \* the promise the method returned
    issued,      \* store calls issued by the operation in flight, in order
    atCall,      \* history: the stores when the operation was called
    atReport,    \* history: the stores and sub-promises when the outcome was delivered
    settleOrder, \* history: the sub-operations of the call in flight, in the order they settled
    delivered,   \* history: how often the call in flight has had fulfill or reject invoked
    seen         \* history: (reported error, failed deletion, kind of failure) of the last failed deleteEvent call

statusVars == <<ev, margin, clock, st>>
storeVars  == <<eventRecord, responses>>
deleteVars == <<deleteEventPromise, deleteConfirmsPromise, deleteAll, deleteOut>>
confirmVars == <<getConfirmsPromise, getWaitingPromise, getAll, getOut>>
passVars   == <<summaryMsgId, lobbyStatus, passCall, storePromise, passOut>>
histVars   == <<issued, atCall, atReport, settleOrder, delivered, seen>>
vars == <<statusVars, storeVars, deleteVars, confirmVars, passVars, histVars>>

\* ---------------------------------------------------------------- bounds
MaxUnixTime == 2      \* constructor's time argument ranges over 0..MaxUnixTime (seconds)
MaxMargin   == 2      \* cfg.happening_margin ranges over 0..MaxMargin (milliseconds)
MaxDrift    == 1      \* the clock advances by at most MaxDrift ms between two moment() reads
Window      == 2      \* the clock is sampled within Window ms around each happening window
MaxId       == 1      \* event ids range over 1..MaxId
NumUsers    == 3      \* user ids range over 1..NumUsers
NumErrors   == 2      \* the stores fail with one of NumErrors error values
NumMsgIds   == 2      \* summary message ids range over NumMsgIds values
NumLobbyStatuses == 2 \* ELobbyStatus has NumLobbyStatuses values

\* ---------------------------------------------------------------- moment
MsPerSec == 1000

\* moment.unix(seconds): a moment holding seconds * 1000 milliseconds
unix(seconds) == [tag |-> "moment", ms |-> seconds * MsPerSec]

NullTime == [tag |-> "null"]

\* a.diff(b): a - b in milliseconds, for a moment a and a millisecond value b
diff(a, bMs) == a.ms - bMs

\* ---------------------------------------------------------------- constructor
\* the constructor keeping the supplied time for an instant event
ScheduledEvent_KeepsTime(id, name, time, limit, instant) ==
    [id      |-> id,
     name    |-> name,
     time    |-> unix(time),
     limit   |-> limit,
     instant |-> instant]

ScheduledEvent(id, name, time, limit, instant) ==
    [id      |-> id,
     name    |-> name,
     time    |-> IF ~instant THEN unix(time) ELSE NullTime,
     limit   |-> limit,
     instant |-> instant]

\* new ScheduledEvent(id, name, time, limit): instant omitted, default false
ScheduledEventDefault(id, name, time, limit) ==
    ScheduledEvent(id, name, time, limit, FALSE)

\* ---------------------------------------------------------------- getStatus
\* now1 and now2 are the values of the two moment() calls (lines 58 and 60);
\* timeReads counts the dereferences of this.time; reading a null time throws.
\* getStatus with the margin taken in seconds (now2 - m * 1000)
getStatus_MarginInSeconds(e, now1, now2, m) ==
    IF e.instant
    THEN [status |-> "expired", timeReads |-> 0]
    ELSE IF e.time = NullTime
    THEN [status |-> "TypeError", timeReads |-> 1]
    ELSE IF diff(e.time, now1) > 0
    THEN [status |-> "pending", timeReads |-> 1]
    ELSE IF diff(e.time, now2 - m * MsPerSec) > 0
    THEN [status |-> "happening", timeReads |-> 2]
    ELSE [status |-> "expired", timeReads |-> 2]

\* getStatus with the margin subtracted in the first comparison as well
getStatus_MarginOnPending(e, now1, now2, m) ==
    IF e.instant
    THEN [status |-> "expired", timeReads |-> 0]
    ELSE IF e.time = NullTime
    THEN [status |-> "TypeError", timeReads |-> 1]
    ELSE IF diff(e.time, now1) - m > 0
    THEN [status |-> "pending", timeReads |-> 1]
    ELSE IF diff(e.time, now2 - m) > 0
    THEN [status |-> "happening", timeReads |-> 2]
    ELSE [status |-> "expired", timeReads |-> 2]

\* getStatus with the first comparison reversed
getStatus_ReversedPending(e, now1, now2, m) ==
    IF e.instant
    THEN [status |-> "expired", timeReads |-> 0]
    ELSE IF e.time = NullTime
    THEN [status |-> "TypeError", timeReads |-> 1]
    ELSE IF diff(e.time, now1) < 0
    THEN [status |-> "pending", timeReads |-> 1]
    ELSE IF diff(e.time, now2 - m) > 0
    THEN [status |-> "happening", timeReads |-> 2]
    ELSE [status |-> "expired", timeReads |-> 2]

\* getStatus without the early return for instant events
getStatus_NoInstantCheck(e, now1, now2, m) ==
    IF e.time = NullTime
    THEN [status |-> "TypeError", timeReads |-> 1]
    ELSE IF diff(e.time, now1) > 0
    THEN [status |-> "pending", timeReads |-> 1]
    ELSE IF diff(e.time, now2 - m) > 0
    THEN [status |-> "happening", timeReads |-> 2]
    ELSE [status |-> "expired", timeReads |-> 2]

getStatus(e, now1, now2, m) ==
    IF e.instant
    THEN [status |-> "expired", timeReads |-> 0]
    ELSE IF e.time = NullTime
    THEN [status |-> "TypeError", timeReads |-> 1]
    ELSE IF diff(e.time, now1) > 0
    THEN [status |-> "pending", timeReads |-> 1]
    ELSE IF diff(e.time, now2 - m) > 0
    THEN [status |-> "happening", timeReads |-> 2]
    ELSE [status |-> "expired", timeReads |-> 2]

NoCall == [called |-> FALSE]

MaxClock == MaxUnixTime * MsPerSec + MaxMargin + Window + MaxDrift

\* the instants at which the clock is observed: around every happening window
ClockValues ==
    {c \in 0..MaxClock :
        \E t \in 0..MaxUnixTime :
            /\ c >= t * MsPerSec - Window
            /\ c <= t * MsPerSec + MaxMargin + Window + MaxDrift}

\* ---------------------------------------------------------------- promises
NoPromise    == [state |-> "none"]
Pending      == [state |-> "pending"]
Fulfilled(v) == [state |-> "fulfilled", value |-> v]
Rejected(e)  == [state |-> "rejected", value |-> e]

Settled(p) == p.state \in {"fulfilled", "rejected"}

Ack    == [tag |-> "ack"]
Null   == [tag |-> "null"]
Undefined == [tag |-> "undefined"]
Errors == {[tag |-> "error", code |-> c] : c \in 1..NumErrors}
Array(items) == [tag |-> "array", items |-> items]

\* the join taken as Promise.allSettled: fulfills once both have settled
PromiseAll_AllSettled(all, ps, i) ==
    IF all.state # "pending" THEN all
    ELSE IF \A j \in 1..2 : Settled(ps[j])
    THEN Fulfilled(Array(<<ps[1].value, ps[2].value>>))
    ELSE all

\* the join taken as Promise.race: settles as the first settled promise does
PromiseAll_Race(all, ps, i) ==
    IF all.state # "pending" THEN all
    ELSE IF ps[i].state = "rejected" THEN Rejected(ps[i].value)
    ELSE Fulfilled(ps[i].value)

\* the join taken as Promise.any: fulfills with the first fulfilment and
\* rejects only when both have been rejected
PromiseAll_Any(all, ps, i) ==
    IF all.state # "pending" THEN all
    ELSE IF ps[i].state = "fulfilled" THEN Fulfilled(ps[i].value)
    ELSE IF \A j \in 1..2 : ps[j].state = "rejected"
    THEN Rejected(ps[i].value)
    ELSE all

\* the join that waits for both promises and then rejects with the rejection
\* of the first promise in the array
PromiseAll_WaitsForAll(all, ps, i) ==
    IF all.state # "pending" THEN all
    ELSE IF \E j \in 1..2 : ~Settled(ps[j]) THEN all
    ELSE IF ps[1].state = "rejected" THEN Rejected(ps[1].value)
    ELSE IF ps[2].state = "rejected" THEN Rejected(ps[2].value)
    ELSE Fulfilled(Array(<<ps[1].value, ps[2].value>>))

\* Promise.all over two promises ps, called when ps[i] has just settled:
\* rejects with the first rejection, fulfills with the array of both values
\* once both are fulfilled, and never changes once settled.
PromiseAll(all, ps, i) ==
    IF all.state # "pending" THEN all
    ELSE IF ps[i].state = "rejected" THEN Rejected(ps[i].value)
    ELSE IF \A j \in 1..2 : ps[j].state = "fulfilled"
    THEN Fulfilled(Array(<<ps[1].value, ps[2].value>>))
    ELSE all

\* ---------------------------------------------------------------- stores
Users == 1..NumUsers
Resp  == {"absent", "waiting", "yes", "no"}

HasConfirms(resp) == \E u \in Users : resp[u] \in {"yes", "no"}

\* db.events.deleteEvent(id), on success: the event record is removed
events_deleteEvent(rec) == FALSE

\* db.confirms.deleteByEvent(id), on success: every ConfirmRecord is removed
confirms_deleteByEvent(resp) ==
    [u \in Users |-> IF resp[u] \in {"yes", "no"} THEN "absent" ELSE resp[u]]

Snapshot == [eventRecord |-> eventRecord, hasConfirms |-> HasConfirms(responses)]
NoSnapshot == [taken |-> FALSE]

NoPass == [name |-> "none"]

IdleAsync ==
    /\ deleteEventPromise = NoPromise
    /\ deleteConfirmsPromise = NoPromise
    /\ deleteAll = NoPromise
    /\ deleteOut = NoPromise
    /\ getConfirmsPromise = NoPromise
    /\ getWaitingPromise = NoPromise
    /\ getAll = NoPromise
    /\ getOut = NoPromise
    /\ issued = <<>>
    /\ atCall = NoSnapshot
    /\ atReport = NoSnapshot
    /\ settleOrder = <<>>
    /\ delivered = 0
    /\ passCall = NoPass
    /\ storePromise = NoPromise
    /\ passOut = NoPromise

InitStatus ==
    /\ eventRecord = TRUE
    /\ responses = [u \in Users |-> "absent"]
    /\ IdleAsync
    /\ summaryMsgId = Null /\ lobbyStatus = Null
    /\ seen = {}
    /\ \E id \in 1..MaxId, t \in 0..MaxUnixTime :
          \/ \E i \in BOOLEAN : ev = ScheduledEvent(id, "event", t, 0, i)
          \/ ev = ScheduledEventDefault(id, "event", t, 0)
    /\ margin \in 0..MaxMargin
    /\ clock \in ClockValues
    /\ st = NoCall

\* time passes between two calls
Tick ==
    /\ \E c \in ClockValues : c > clock /\ clock' = c
    /\ UNCHANGED <<ev, margin, st, passVars, storeVars, deleteVars, confirmVars, histVars>>

\* one call of ev.getStatus(); the clock may advance between the two reads
GetStatus ==
    /\ \E d \in 0..MaxDrift :
          /\ clock + d \in ClockValues
          /\ clock' = clock + d
          /\ st' = [called |-> TRUE, now1 |-> clock, now2 |-> clock + d,
                    result |-> getStatus(ev, clock, clock + d, margin),
                    prev   |-> IF st.called THEN st.result.status ELSE "none"]
    /\ UNCHANGED <<ev, margin, passVars, storeVars, deleteVars, confirmVars, histVars>>

NextStatus == Tick \/ GetStatus

SpecStatus == InitStatus /\ [][NextStatus]_vars
\* ---------------------------------------------------------------- deleteEvent
\* deleteEvent reads this.id only; the stores hold any rows for that id
InitDelete ==
    /\ \E id \in 1..MaxId, i \in BOOLEAN :
          ev = ScheduledEvent(id, "event", 0, 0, i)
    /\ margin = 0 /\ clock = 0 /\ st = NoCall
    /\ eventRecord \in BOOLEAN
    /\ responses \in [Users -> Resp]
    /\ IdleAsync
    /\ summaryMsgId = Null /\ lobbyStatus = Null
    /\ seen = {}

\* deleteEvent with the deletions chained: only the event-record deletion is
\* issued by the call
CallDeleteEvent_Chained ==
    /\ deleteOut = NoPromise
    /\ deleteEventPromise' = Pending
    /\ issued' = issued \o <<"events.deleteEvent">>
    /\ deleteAll' = Pending
    /\ deleteOut' = Pending
    /\ atCall' = Snapshot
    /\ UNCHANGED <<statusVars, passVars, storeVars, confirmVars, deleteConfirmsPromise,
                   atReport, settleOrder, delivered, seen>>

\* ev.deleteEvent(): both deletions are issued, then joined (lines 149-154)
CallDeleteEvent ==
    /\ deleteOut = NoPromise
    /\ deleteEventPromise' = Pending
    /\ deleteConfirmsPromise' = Pending
    /\ issued' = issued \o <<"events.deleteEvent", "confirms.deleteByEvent">>
    /\ deleteAll' = Pending
    /\ deleteOut' = Pending
    /\ atCall' = Snapshot
    /\ UNCHANGED <<statusVars, passVars, storeVars, confirmVars, atReport, settleOrder, delivered, seen>>

\* fulfill and reject attached to the event-record deletion alone instead
\* of the Promise.all
DeleteJoin_EventOnly(i) ==
    /\ deleteAll' = PromiseAll(deleteAll,
                        <<deleteEventPromise', deleteConfirmsPromise'>>, i)
    /\ deleteOut' = IF deleteOut.state = "pending" /\ Settled(deleteEventPromise')
                       THEN deleteEventPromise' ELSE deleteOut
    /\ atReport' = IF deleteOut.state = "pending" /\ Settled(deleteOut')
                       THEN [eventRecord |-> eventRecord',
                             hasConfirms |-> HasConfirms(responses'),
                             eventDone   |-> Settled(deleteEventPromise'),
                             confirmsDone |-> Settled(deleteConfirmsPromise'),
                             origin |-> i]
                       ELSE atReport
    /\ settleOrder' = Append(settleOrder, i)
    /\ delivered' = IF deleteOut.state = "pending" /\ Settled(deleteOut')
                        THEN delivered + 1 ELSE delivered

\* .then(fulfill).catch(reject) of line 153, run when a deletion has settled:
\* the returned promise takes the outcome of the Promise.all
DeleteJoin(i) ==
    /\ deleteAll' = PromiseAll(deleteAll,
                        <<deleteEventPromise', deleteConfirmsPromise'>>, i)
    /\ deleteOut' = IF deleteOut.state = "pending" /\ Settled(deleteAll')
                       THEN deleteAll' ELSE deleteOut
    /\ atReport' = IF deleteOut.state = "pending" /\ Settled(deleteOut')
                       THEN [eventRecord |-> eventRecord',
                             hasConfirms |-> HasConfirms(responses'),
                             eventDone   |-> Settled(deleteEventPromise'),
                             confirmsDone |-> Settled(deleteConfirmsPromise'),
                             origin |-> i]
                       ELSE atReport
    /\ settleOrder' = Append(settleOrder, i)
    /\ delivered' = IF deleteAll' # deleteAll /\ Settled(deleteAll')
                        THEN delivered + 1 ELSE delivered

\* db.events.deleteEvent(this.id) succeeds
EventsDeleteOk ==
    /\ deleteEventPromise = Pending
    /\ eventRecord' = events_deleteEvent(eventRecord)
    /\ deleteEventPromise' = Fulfilled(Ack)
    /\ UNCHANGED <<responses, deleteConfirmsPromise>>
    /\ DeleteJoin(1)
    /\ UNCHANGED <<statusVars, passVars, confirmVars, issued, atCall, seen>>

\* db.events.deleteEvent(this.id) fails; the store is left as it was
EventsDeleteFail ==
    /\ deleteEventPromise = Pending
    /\ \E e \in Errors : deleteEventPromise' = Rejected(e)
    /\ UNCHANGED <<storeVars, deleteConfirmsPromise>>
    /\ DeleteJoin(1)
    /\ UNCHANGED <<statusVars, passVars, confirmVars, issued, atCall, seen>>

\* db.confirms.deleteByEvent(this.id) succeeds
ConfirmsDeleteOk ==
    /\ deleteConfirmsPromise = Pending
    /\ responses' = confirms_deleteByEvent(responses)
    /\ deleteConfirmsPromise' = Fulfilled(Ack)
    /\ UNCHANGED <<eventRecord, deleteEventPromise>>
    /\ DeleteJoin(2)
    /\ UNCHANGED <<statusVars, passVars, confirmVars, issued, atCall, seen>>

\* db.confirms.deleteByEvent(this.id) fails; the store is left as it was
ConfirmsDeleteFail ==
    /\ deleteConfirmsPromise = Pending
    /\ \E e \in Errors : deleteConfirmsPromise' = Rejected(e)
    /\ UNCHANGED <<storeVars, deleteEventPromise>>
    /\ DeleteJoin(2)
    /\ UNCHANGED <<statusVars, passVars, confirmVars, issued, atCall, seen>>

\* what a call that was reported as failed did, once both deletions have
\* settled: one side's records are gone (partial), both deletions failed and
\* the stores are as they were (clean), or one deletion failed and the other
\* found nothing to remove (empty)
FailureKind ==
    IF Snapshot # atCall THEN "partial"
    ELSE IF deleteEventPromise.state = "rejected" /\ deleteConfirmsPromise.state = "rejected"
    THEN "clean"
    ELSE "empty"

\* both deletions have settled and the caller calls ev.deleteEvent() again
\* (a retry after a failure, or a repeated command); the stores stay as the
\* first call left them
DeleteAgain ==
    /\ Settled(deleteEventPromise) /\ Settled(deleteConfirmsPromise)
    /\ seen' = IF deleteOut.state = "rejected"
                THEN {[report |-> deleteOut.value,
                       origin |-> atReport.origin,
                       kind   |-> FailureKind]}
                ELSE seen
    /\ deleteEventPromise' = Pending
    /\ deleteConfirmsPromise' = Pending
    /\ issued' = <<"events.deleteEvent", "confirms.deleteByEvent">>
    /\ deleteAll' = Pending
    /\ deleteOut' = Pending
    /\ atCall' = Snapshot
    /\ atReport' = NoSnapshot
    /\ settleOrder' = <<>>
    /\ delivered' = 0
    /\ UNCHANGED <<statusVars, passVars, storeVars, confirmVars>>

NextDeleteSpec ==
    \/ CallDeleteEvent
    \/ EventsDeleteOk
    \/ EventsDeleteFail
    \/ ConfirmsDeleteOk
    \/ ConfirmsDeleteFail
    \/ DeleteAgain

SpecDelete == InitDelete /\ [][NextDeleteSpec]_vars

\* ---------------------------------------------------------------- getConfirms
Range(q) == {q[k] : k \in DOMAIN q}

\* the orderings of a finite set as sequences
Orderings(S) ==
    {q \in [1..Cardinality(S) -> S] : \A a, b \in DOMAIN q : q[a] = q[b] => a = b}

ConfirmRecords(resp) ==
    {[user |-> u, attends |-> (resp[u] = "yes")] : u \in {v \in Users : resp[v] \in {"yes", "no"}}}

WaitingList(resp) == {u \in Users : resp[u] = "waiting"}

\* db.confirms.getByEvent(event), on success: the ConfirmRecords of the event
\* in some order; null or an empty list when there are none
confirms_getByEvent(resp) ==
    IF ConfirmRecords(resp) = {} THEN {Null, Array(<<>>)}
    ELSE {Array(q) : q \in Orderings(ConfirmRecords(resp))}

\* db.events.getWaiting(event), on success: the waiting list of the event in
\* some order; no value or an empty list when nobody is waiting
events_getWaiting(resp) ==
    IF WaitingList(resp) = {} THEN {Null, Array(<<>>)}
    ELSE {Array(q) : q \in Orderings(WaitingList(resp))}

\* the loop of lines 125-131, from index k on
RECURSIVE Partition(_, _, _, _)
Partition(confirms, k, confirmed, rejected) ==
    IF k > Len(confirms) THEN [confirmed |-> confirmed, rejected |-> rejected]
    ELSE IF confirms[k].attends
    THEN Partition(confirms, k + 1, Append(confirmed, confirms[k].user), rejected)
    ELSE Partition(confirms, k + 1, confirmed, Append(rejected, confirms[k].user))

\* the callback with the loop started one record too late
people_SkipsFirstRecord(vals) ==
    LET confirms == vals.items[1]
        waiting  == vals.items[2]
        parts    == IF confirms # Null
                    THEN Partition(confirms.items, 2, <<>>, <<>>)
                    ELSE [confirmed |-> <<>>, rejected |-> <<>>]
    IN  [confirmed |-> parts.confirmed,
         rejected  |-> parts.rejected,
         waiting   |-> IF waiting = Null THEN <<>> ELSE waiting.items]

\* the callback with waiting passed on as returned (no "|| []")
people_WaitingUnguarded(vals) ==
    LET confirms == vals.items[1]
        waiting  == vals.items[2]
        parts    == IF confirms # Null
                    THEN Partition(confirms.items, 1, <<>>, <<>>)
                    ELSE [confirmed |-> <<>>, rejected |-> <<>>]
    IN  [confirmed |-> parts.confirmed,
         rejected  |-> parts.rejected,
         waiting   |-> IF waiting = Null THEN Null ELSE waiting.items]

\* the callback of lines 118-135: the people object built from vals
people(vals) ==
    LET confirms == vals.items[1]
        waiting  == vals.items[2]
        parts    == IF confirms # Null
                    THEN Partition(confirms.items, 1, <<>>, <<>>)
                    ELSE [confirmed |-> <<>>, rejected |-> <<>>]
    IN  [confirmed |-> parts.confirmed,
         rejected  |-> parts.rejected,
         waiting   |-> IF waiting = Null THEN <<>> ELSE waiting.items]

\* getConfirms passes this to the stores and reads no other field
InitConfirms ==
    /\ \E id \in 1..MaxId, i \in BOOLEAN :
          ev = ScheduledEvent(id, "event", 0, 0, i)
    /\ margin = 0 /\ clock = 0 /\ st = NoCall
    /\ eventRecord = TRUE
    /\ responses \in [Users -> Resp]
    /\ IdleAsync
    /\ summaryMsgId = Null /\ lobbyStatus = Null
    /\ seen = {}

\* getConfirms as a pipeline: only the confirm-records read is issued by the call
CallGetConfirms_Pipeline ==
    /\ getOut = NoPromise
    /\ getConfirmsPromise' = Pending
    /\ issued' = issued \o <<"confirms.getByEvent">>
    /\ getAll' = Pending
    /\ getOut' = Pending
    /\ atCall' = Snapshot
    /\ UNCHANGED <<statusVars, passVars, storeVars, deleteVars, getWaitingPromise,
                   atReport, settleOrder, delivered, seen>>

\* ev.getConfirms(): both reads are issued, then joined (lines 114-118)
CallGetConfirms ==
    /\ getOut = NoPromise
    /\ getConfirmsPromise' = Pending
    /\ getWaitingPromise' = Pending
    /\ issued' = issued \o <<"confirms.getByEvent", "events.getWaiting">>
    /\ getAll' = Pending
    /\ getOut' = Pending
    /\ atCall' = Snapshot
    /\ UNCHANGED <<statusVars, passVars, storeVars, deleteVars, atReport, settleOrder, delivered, seen>>

\* the join without .catch(reject): a rejection of the Promise.all is dropped
GetConfirmsJoin_NoCatch(i) ==
    /\ getAll' = PromiseAll(getAll, <<getConfirmsPromise', getWaitingPromise'>>, i)
    /\ getOut' = IF getOut.state # "pending" THEN getOut
                  ELSE IF getAll'.state = "fulfilled" THEN Fulfilled(people(getAll'.value))
                  ELSE getOut
    /\ settleOrder' = Append(settleOrder, i)
    /\ delivered' = IF getAll' # getAll /\ getAll'.state = "fulfilled"
                        THEN delivered + 1 ELSE delivered

\* .then(vals => ...).catch(reject) of lines 118-135, run when a read has settled
GetConfirmsJoin(i) ==
    /\ getAll' = PromiseAll(getAll, <<getConfirmsPromise', getWaitingPromise'>>, i)
    /\ getOut' = IF getOut.state # "pending" THEN getOut
                  ELSE IF getAll'.state = "fulfilled" THEN Fulfilled(people(getAll'.value))
                  ELSE IF getAll'.state = "rejected" THEN Rejected(getAll'.value)
                  ELSE getOut
    /\ settleOrder' = Append(settleOrder, i)
    /\ delivered' = IF getAll' # getAll /\ Settled(getAll')
                        THEN delivered + 1 ELSE delivered

\* db.confirms.getByEvent(this) succeeds
ConfirmsReadOk ==
    /\ getConfirmsPromise = Pending
    /\ \E v \in confirms_getByEvent(responses) : getConfirmsPromise' = Fulfilled(v)
    /\ UNCHANGED getWaitingPromise
    /\ GetConfirmsJoin(1)
    /\ UNCHANGED <<statusVars, passVars, storeVars, deleteVars, issued, atCall, atReport, seen>>

\* db.confirms.getByEvent(this) fails
ConfirmsReadFail ==
    /\ getConfirmsPromise = Pending
    /\ \E e \in Errors : getConfirmsPromise' = Rejected(e)
    /\ UNCHANGED getWaitingPromise
    /\ GetConfirmsJoin(1)
    /\ UNCHANGED <<statusVars, passVars, storeVars, deleteVars, issued, atCall, atReport, seen>>

\* db.events.getWaiting(this) succeeds
WaitingReadOk ==
    /\ getWaitingPromise = Pending
    /\ \E v \in events_getWaiting(responses) : getWaitingPromise' = Fulfilled(v)
    /\ UNCHANGED getConfirmsPromise
    /\ GetConfirmsJoin(2)
    /\ UNCHANGED <<statusVars, passVars, storeVars, deleteVars, issued, atCall, atReport, seen>>

\* db.events.getWaiting(this) fails
WaitingReadFail ==
    /\ getWaitingPromise = Pending
    /\ \E e \in Errors : getWaitingPromise' = Rejected(e)
    /\ UNCHANGED getConfirmsPromise
    /\ GetConfirmsJoin(2)
    /\ UNCHANGED <<statusVars, passVars, storeVars, deleteVars, issued, atCall, atReport, seen>>

\* another command of the bot records the answer of a waiting user: the user
\* leaves the waiting list and gets a ConfirmRecord
Respond ==
    /\ \E u \in Users, a \in {"yes", "no"} :
          /\ responses[u] = "waiting"
          /\ responses' = [responses EXCEPT ![u] = a]
    /\ UNCHANGED <<statusVars, passVars, eventRecord, deleteVars, confirmVars, histVars>>

NextConfirms ==
    \/ CallGetConfirms
    \/ ConfirmsReadOk
    \/ ConfirmsReadFail
    \/ WaitingReadOk
    \/ WaitingReadFail
    \/ Respond

SpecConfirms == InitConfirms /\ [][NextConfirms]_vars

\* ---------------------------------------------------------------- getMsgId, updateMsgId, getLobbyStatus, setLobbyStatus
MsgIds        == {[tag |-> "msgId", n |-> k] : k \in 1..NumMsgIds}
LobbyStatuses == {[tag |-> "lobbyStatus", n |-> k] : k \in 1..NumLobbyStatuses}

\* the store call each method makes
StoreCallOf(name) ==
    CASE name = "getMsgId"       -> "events.getSummaryMsgId"
      [] name = "getLobbyStatus" -> "events.getLobbyStatus"
      [] name = "updateMsgId"    -> "events.updateSummaryMsgId"
      [] name = "setLobbyStatus" -> "events.updateLobbyStatus"

\* what the store call of the method in flight fulfills with
StoreResult(call) ==
    CASE call.name = "getMsgId"       -> summaryMsgId
      [] call.name = "getLobbyStatus" -> lobbyStatus
      [] call.name = "updateMsgId"    -> Ack
      [] call.name = "setLobbyStatus" -> Ack

\* every handler fulfills, also the one given the store's error
passOutcome_SwallowsError(name, p) ==
    IF name = "updateMsgId" THEN Fulfilled(Undefined) ELSE Fulfilled(p.value)

\* the outcome of the promise a method returned, once its store promise p has
\* settled: getMsgId (lines 41-43), getLobbyStatus (line 73, the store's own
\* promise), updateMsgId (lines 82-84), setLobbyStatus (line 96)
passOutcome(name, p) ==
    CASE name = "getMsgId" ->
            IF p.state = "fulfilled" THEN Fulfilled(p.value) ELSE Rejected(p.value)
      [] name = "getLobbyStatus" -> p
      [] name = "updateMsgId" ->
            IF p.state = "fulfilled" THEN Fulfilled(Undefined) ELSE Rejected(p.value)
      [] name = "setLobbyStatus" ->
            IF p.state = "fulfilled" THEN Fulfilled(p.value) ELSE Rejected(p.value)

InitPass ==
    /\ \E id \in 1..MaxId, t \in 0..MaxUnixTime, i \in BOOLEAN :
          ev = ScheduledEvent(id, "event", t, 0, i)
    /\ margin = 0 /\ clock = 0 /\ st = NoCall
    /\ eventRecord = TRUE
    /\ responses = [u \in Users |-> "absent"]
    /\ IdleAsync
    /\ summaryMsgId \in MsgIds \cup {Null}
    /\ lobbyStatus \in LobbyStatuses
    /\ seen = {}

\* the call of a method: its one store call is issued
CallPass(name, arg) ==
    /\ passCall = NoPass
    /\ passCall' = [name |-> name, arg |-> arg]
    /\ storePromise' = Pending
    /\ passOut' = Pending
    /\ issued' = issued \o <<StoreCallOf(name)>>
    /\ UNCHANGED <<statusVars, storeVars, deleteVars, confirmVars,
                   summaryMsgId, lobbyStatus,
                   atCall, atReport, settleOrder, delivered, seen>>

CallGetMsgId == CallPass("getMsgId", Undefined)

CallGetLobbyStatus == CallPass("getLobbyStatus", Undefined)

CallUpdateMsgId == \E msgId \in MsgIds : CallPass("updateMsgId", msgId)

CallSetLobbyStatus == \E status \in LobbyStatuses : CallPass("setLobbyStatus", status)

\* the handlers attached to the store promise run: the returned promise settles
PassSettle ==
    /\ passOut' = IF passOut.state = "pending"
                  THEN passOutcome(passCall.name, storePromise') ELSE passOut
    /\ settleOrder' = Append(settleOrder, 1)
    /\ delivered' = delivered + 1

\* the store call succeeds; an update has written its value
StoreCallOk ==
    /\ storePromise = Pending
    /\ storePromise' = Fulfilled(StoreResult(passCall))
    /\ summaryMsgId' = IF passCall.name = "updateMsgId" THEN passCall.arg ELSE summaryMsgId
    /\ lobbyStatus' = IF passCall.name = "setLobbyStatus" THEN passCall.arg ELSE lobbyStatus
    /\ PassSettle
    /\ UNCHANGED <<statusVars, storeVars, deleteVars, confirmVars, passCall,
                   issued, atCall, atReport, seen>>

\* the store call fails; the store is left as it was
StoreCallFail ==
    /\ storePromise = Pending
    /\ \E e \in Errors : storePromise' = Rejected(e)
    /\ PassSettle
    /\ UNCHANGED <<statusVars, storeVars, deleteVars, confirmVars, passCall,
                   summaryMsgId, lobbyStatus, issued, atCall, atReport, seen>>

\* the caller has taken the outcome and may call another method
PassReturn ==
    /\ Settled(passOut)
    /\ passCall' = NoPass
    /\ storePromise' = NoPromise
    /\ passOut' = NoPromise
    /\ issued' = <<>>
    /\ settleOrder' = <<>>
    /\ delivered' = 0
    /\ UNCHANGED <<statusVars, storeVars, deleteVars, confirmVars,
                   summaryMsgId, lobbyStatus, atCall, atReport, seen>>

NextPass ==
    \/ CallGetMsgId
    \/ CallGetLobbyStatus
    \/ CallUpdateMsgId
    \/ CallSetLobbyStatus
    \/ StoreCallOk
    \/ StoreCallFail
    \/ PassReturn

SpecPass == InitPass /\ [][NextPass]_vars

\* ---------------------------------------------------------------- pass-through methods: properties
\* C14: for getMsgId, updateMsgId, getLobbyStatus and setLobbyStatus, a failed
\* store call makes the method reject with the very same error value, the
\* method fulfills only when the store call has succeeded, and the store
\* call is issued exactly once per call of the method.
C14_StoreFailurePropagated ==
    passCall # NoPass
    => /\ issued = <<StoreCallOf(passCall.name)>>
       /\ storePromise.state = "rejected" => passOut = Rejected(storePromise.value)
       /\ passOut.state = "fulfilled" => storePromise.state = "fulfilled"
       /\ delivered <= 1

C14_Witness ==
    /\ passCall.name = "setLobbyStatus"
    /\ storePromise.state = "rejected"
    /\ passOut = storePromise
    /\ issued = <<"events.updateLobbyStatus">>

\* ---------------------------------------------------------------- getConfirms: properties
\* C9: in every view getConfirms fulfills with, confirmed, rejected and
\* waiting are pairwise disjoint.
C9_ViewDisjoint ==
    getOut.state = "fulfilled"
    => /\ Range(getOut.value.confirmed) \cap Range(getOut.value.rejected) = {}
       /\ Range(getOut.value.confirmed) \cap Range(getOut.value.waiting) = {}
       /\ Range(getOut.value.rejected) \cap Range(getOut.value.waiting) = {}

Count(q, x) == Cardinality({k \in DOMAIN q : q[k] = x})

ReturnedRecords ==
    IF getConfirmsPromise.value = Null THEN <<>> ELSE getConfirmsPromise.value.items

ReturnedWaiting ==
    IF getWaitingPromise.value = Null THEN <<>> ELSE getWaitingPromise.value.items

CountRecords(u, a) ==
    Cardinality({k \in DOMAIN ReturnedRecords :
                    ReturnedRecords[k] = [user |-> u, attends |-> a]})

\* C10: when both reads have succeeded, getConfirms fulfills with a view whose
\* confirmed holds exactly the users of the returned records with attends
\* true, whose rejected holds exactly those with attends false (each record
\* once, in one of the two), and whose waiting is the returned waiting list.
C10_ViewMatchesReads ==
    (getConfirmsPromise.state = "fulfilled" /\ getWaitingPromise.state = "fulfilled")
    => /\ getOut.state = "fulfilled"
       /\ \A u \in Users :
             /\ Count(getOut.value.confirmed, u) = CountRecords(u, TRUE)
             /\ Count(getOut.value.rejected, u) = CountRecords(u, FALSE)
       /\ Range(getOut.value.confirmed) \cup Range(getOut.value.rejected) \subseteq Users
       /\ Len(getOut.value.confirmed) + Len(getOut.value.rejected) = Len(ReturnedRecords)
       /\ getOut.value.waiting = ReturnedWaiting

C10_Witness ==
    /\ getOut.state = "fulfilled"
    /\ Len(getOut.value.confirmed) = 1
    /\ Len(getOut.value.rejected) = 1
    /\ Len(getOut.value.waiting) = 1
    /\ Len(ReturnedRecords) = 2

ReadPromise(i) == IF i = 1 THEN getConfirmsPromise ELSE getWaitingPromise

\* the reads that have failed, in the order their failures were observed
FailedReads == SelectSeq(settleOrder, LAMBDA i : ReadPromise(i).state = "rejected")

\* C12: getConfirms has rejected exactly when at least one of its reads has
\* failed; the error it rejected with is the error of the read that failed
\* first; once a read has failed no view is delivered.
C12_RejectsIffReadFails ==
    /\ getOut.state = "rejected" <=> Len(FailedReads) > 0
    /\ Len(FailedReads) > 0
          => /\ getOut = Rejected(ReadPromise(FailedReads[1]).value)
             /\ getOut.state # "fulfilled"

C12_Witness ==
    /\ getConfirmsPromise.state = "rejected"
    /\ getWaitingPromise.state = "rejected"
    /\ getConfirmsPromise.value # getWaitingPromise.value
    /\ settleOrder = <<2, 1>>
    /\ getOut = Rejected(getWaitingPromise.value)

ReadCalls == <<"confirms.getByEvent", "events.getWaiting">>

\* C13: getConfirms issues both reads before either has completed (once the
\* call is made both are in flight, and no read settles before both were
\* issued), and it has not fulfilled unless both reads have completed.
C13_ReadsIssuedTogether ==
    /\ getOut.state # "none"
          => /\ issued = ReadCalls
             /\ getConfirmsPromise.state # "none"
             /\ getWaitingPromise.state # "none"
    /\ Len(settleOrder) > 0 /\ getAll.state # "none" => issued = ReadCalls
    /\ getOut.state = "fulfilled"
          => /\ Settled(getConfirmsPromise) /\ Settled(getWaitingPromise)
             /\ Range(settleOrder) = {1, 2}

C13_Witness ==
    /\ issued = ReadCalls
    /\ getWaitingPromise.state = "fulfilled"
    /\ getConfirmsPromise = Pending
    /\ settleOrder = <<2>>
    /\ getOut = Pending

BothReadsFulfilled ==
    getConfirmsPromise.state = "fulfilled" /\ getWaitingPromise.state = "fulfilled"

IsEmptyList(x) == DOMAIN x = {}

\* C11: when the event store returns no waiting-list value, getConfirms
\* fulfills with an empty waiting; when in addition the confirm store returns
\* null or an empty list, confirmed and rejected are empty as well.
C11_EmptyWhenNothingReturned ==
    (BothReadsFulfilled /\ getWaitingPromise.value = Null)
    => /\ getOut.state = "fulfilled"
       /\ IsEmptyList(getOut.value.waiting)
       /\ getConfirmsPromise.value \in {Null, Array(<<>>)}
             => /\ IsEmptyList(getOut.value.confirmed)
                /\ IsEmptyList(getOut.value.rejected)

C11_Witness ==
    /\ BothReadsFulfilled
    /\ getConfirmsPromise.value = Null
    /\ getWaitingPromise.value = Null
    /\ getOut = Fulfilled([confirmed |-> <<>>, rejected |-> <<>>, waiting |-> <<>>])

\* ---------------------------------------------------------------- deleteEvent: properties
DeleteCalls == {"events.deleteEvent", "confirms.deleteByEvent"}

\* C5: deleteEvent fulfills only if both deletions succeeded; as soon as
\* either deletion has failed it has rejected; it issues no store call other
\* than the two deletions, and the side whose deletion succeeded stays deleted.
C5_FulfillsOnlyIfBoth ==
    /\ deleteOut.state = "fulfilled"
          => /\ deleteEventPromise.state = "fulfilled"
             /\ deleteConfirmsPromise.state = "fulfilled"
    /\ (deleteEventPromise.state = "rejected" \/ deleteConfirmsPromise.state = "rejected")
          => deleteOut.state = "rejected"
    /\ \A k \in DOMAIN issued : issued[k] \in DeleteCalls
    /\ deleteEventPromise.state = "fulfilled" => ~eventRecord
    /\ deleteConfirmsPromise.state = "fulfilled" => ~HasConfirms(responses)

C5_Witness ==
    /\ deleteOut.state = "rejected"
    /\ atCall.eventRecord /\ atCall.hasConfirms
    /\ deleteEventPromise.state = "rejected"
    /\ deleteConfirmsPromise.state = "fulfilled"
    /\ eventRecord /\ ~HasConfirms(responses)

\* C16: deleteEvent issues both deletions, each exactly once, before either
\* has completed: once the call is made both are in flight, whatever the
\* outcome of the other one is.
C16_BothDeletionsIssued ==
    /\ deleteOut.state # "none"
          => /\ issued = <<"events.deleteEvent", "confirms.deleteByEvent">>
             /\ deleteEventPromise.state # "none"
             /\ deleteConfirmsPromise.state # "none"
    /\ deleteOut.state = "none" => issued = <<>> /\ settleOrder = <<>>
    /\ \A k \in DOMAIN settleOrder :
          Cardinality({j \in DOMAIN settleOrder : settleOrder[j] = settleOrder[k]}) = 1

C16_Witness ==
    /\ deleteEventPromise.state = "rejected"
    /\ deleteConfirmsPromise.state = "fulfilled"
    /\ settleOrder = <<1, 2>>
    /\ atCall.hasConfirms /\ ~HasConfirms(responses)
    /\ issued = <<"events.deleteEvent", "confirms.deleteByEvent">>

\* ---------------------------------------------------------------- the two joins together
\* one ScheduledEvent on which either deleteEvent or getConfirms is called
InitJoins == InitDelete

NextJoins ==
    \/ getOut = NoPromise /\ NextDeleteSpec
    \/ deleteOut = NoPromise /\ NextConfirms

SpecJoins == InitJoins /\ [][NextJoins]_vars

\* C17: in both joins, a delivered success means both sub-operations have
\* completed successfully and a delivered failure means at least one has
\* failed; the success value is built from the two results by their place in
\* the array, not by the order in which they completed.
C17_JoinOutcome ==
    /\ deleteOut.state = "fulfilled"
          => /\ deleteEventPromise.state = "fulfilled"
             /\ deleteConfirmsPromise.state = "fulfilled"
             /\ deleteOut.value = Array(<<deleteEventPromise.value, deleteConfirmsPromise.value>>)
    /\ deleteOut.state = "rejected"
          => \/ deleteEventPromise.state = "rejected"
             \/ deleteConfirmsPromise.state = "rejected"
    /\ getOut.state = "fulfilled"
          => /\ BothReadsFulfilled
             /\ getOut.value.waiting = ReturnedWaiting
             /\ Len(getOut.value.confirmed) + Len(getOut.value.rejected) = Len(ReturnedRecords)
             /\ Range(getOut.value.confirmed) \cup Range(getOut.value.rejected)
                   = {ReturnedRecords[k].user : k \in DOMAIN ReturnedRecords}
    /\ getOut.state = "rejected"
          => \/ getConfirmsPromise.state = "rejected"
             \/ getWaitingPromise.state = "rejected"

C17_Witness ==
    /\ deleteOut.state = "fulfilled"
    /\ settleOrder = <<2, 1>>
    /\ atCall.eventRecord /\ atCall.hasConfirms
    /\ atReport.origin = 1

\* C18: a failure does not cancel the sibling deletion: when one deletion has
\* failed while the other is still in flight, deleteEvent has already
\* rejected, and the deletion in flight can still complete (and then removes
\* its records after the caller has seen the failure).
C18_SiblingNotCancelled ==
    /\ (deleteConfirmsPromise.state = "rejected" /\ deleteEventPromise = Pending)
          => /\ deleteOut = Rejected(deleteConfirmsPromise.value)
             /\ ENABLED EventsDeleteOk
    /\ (deleteEventPromise.state = "rejected" /\ deleteConfirmsPromise = Pending)
          => /\ deleteOut = Rejected(deleteEventPromise.value)
             /\ ENABLED ConfirmsDeleteOk
    /\ (deleteOut.state = "rejected" /\ Len(settleOrder) = 2 /\ ~atReport.confirmsDone
            /\ deleteConfirmsPromise.state = "fulfilled")
          => ~HasConfirms(responses)
    /\ (deleteOut.state = "rejected" /\ Len(settleOrder) = 2 /\ ~atReport.eventDone
            /\ deleteEventPromise.state = "fulfilled")
          => ~eventRecord

C18_Witness ==
    /\ deleteOut.state = "rejected"
    /\ atReport.origin = 1 /\ ~atReport.confirmsDone
    /\ atReport.hasConfirms
    /\ deleteConfirmsPromise.state = "fulfilled"
    /\ ~HasConfirms(responses)

\* ---------------------------------------------------------------- one call of one method, every store call settling
\* a few store contents: nothing stored, one answer and the others waiting,
\* one refusal
SettleResponses ==
    {[u \in Users |-> "absent"],
     [u \in Users |-> IF u = 1 THEN "yes" ELSE "waiting"],
     [u \in Users |-> IF u = 1 THEN "no" ELSE "absent"]}

InitSettle ==
    /\ \E id \in 1..MaxId, i \in BOOLEAN :
          ev = ScheduledEvent(id, "event", 0, 0, i)
    /\ margin = 0 /\ clock = 0 /\ st = NoCall
    /\ eventRecord = TRUE
    /\ responses \in SettleResponses
    /\ IdleAsync
    /\ summaryMsgId \in MsgIds \cup {Null}
    /\ lobbyStatus \in LobbyStatuses
    /\ seen = {}

EventsDeleteSettles   == EventsDeleteOk \/ EventsDeleteFail
ConfirmsDeleteSettles == ConfirmsDeleteOk \/ ConfirmsDeleteFail
ConfirmsReadSettles   == ConfirmsReadOk \/ ConfirmsReadFail
WaitingReadSettles    == WaitingReadOk \/ WaitingReadFail
StoreCallSettles      == StoreCallOk \/ StoreCallFail

NoMethodInFlight ==
    deleteOut = NoPromise /\ getOut = NoPromise /\ passCall = NoPass

NextSettle ==
    \/ NoMethodInFlight /\ CallDeleteEvent
    \/ NoMethodInFlight /\ CallGetConfirms
    \/ NoMethodInFlight /\ CallGetMsgId
    \/ NoMethodInFlight /\ CallUpdateMsgId
    \/ NoMethodInFlight /\ CallGetLobbyStatus
    \/ NoMethodInFlight /\ CallSetLobbyStatus
    \/ EventsDeleteSettles
    \/ ConfirmsDeleteSettles
    \/ ConfirmsReadSettles
    \/ WaitingReadSettles
    \/ StoreCallSettles

\* every store call that was issued eventually settles
StoreCallsSettle ==
    /\ WF_vars(EventsDeleteSettles)
    /\ WF_vars(ConfirmsDeleteSettles)
    /\ WF_vars(ConfirmsReadSettles)
    /\ WF_vars(WaitingReadSettles)
    /\ WF_vars(StoreCallSettles)

SpecSettle == InitSettle /\ [][NextSettle]_vars /\ StoreCallsSettle

\* a step leaves every settled returned promise as it is
SettledStays ==
    /\ Settled(deleteOut) => deleteOut' = deleteOut
    /\ Settled(getOut) => getOut' = getOut
    /\ Settled(passOut) => passOut' = passOut

\* C20: every asynchronous method settles the promise it returned exactly
\* once: with every store call settling, a pending promise is eventually
\* fulfilled or rejected; a settled promise never changes again, and fulfill
\* or reject is invoked at most once per call, also when the second
\* sub-operation of a join completes or fails after the first failure.
C20_SettlesOnce ==
    /\ (deleteOut.state = "pending") ~> Settled(deleteOut)
    /\ (getOut.state = "pending") ~> Settled(getOut)
    /\ (passOut.state = "pending") ~> Settled(passOut)
    /\ [][SettledStays]_vars
    /\ [](delivered <= 1)

C20_Witness ==
    /\ getConfirmsPromise.state = "rejected"
    /\ getWaitingPromise.state = "rejected"
    /\ settleOrder = <<1, 2>>
    /\ getOut = Rejected(getConfirmsPromise.value)
    /\ getWaitingPromise.value # getConfirmsPromise.value
    /\ delivered = 1

\* the event-record deletion succeeded and the confirm-records deletion
\* failed, in a call made while both kinds of record existed
EventGoneConfirmsFailed ==
    /\ deleteEventPromise.state = "fulfilled"
    /\ deleteConfirmsPromise.state = "rejected"
    /\ atCall.eventRecord /\ atCall.hasConfirms

\* C6 (as stated): when the event-record deletion succeeds and the
\* confirm-records deletion fails, deleteEvent reports failure and, when the
\* failure was reported, the event record was already gone and the confirm
\* records still present, in both completion orders.
C6_EventGoneAtReport ==
    EventGoneConfirmsFailed
    => /\ deleteOut.state = "rejected"
       /\ ~atReport.eventRecord
       /\ atReport.hasConfirms

\* C6 (amended): when the event-record deletion succeeds and the
\* confirm-records deletion fails, deleteEvent rejects with the confirm
\* deletion's error; the confirm records are present when the failure is
\* reported and afterwards; the event record is gone at the report exactly
\* when the event deletion completed before the confirm deletion failed, and
\* is gone once the event deletion has completed.
C6_PartialFailureReported ==
    EventGoneConfirmsFailed
    => /\ deleteOut = Rejected(deleteConfirmsPromise.value)
       /\ atReport.hasConfirms /\ HasConfirms(responses)
       /\ atReport.confirmsDone
       /\ atReport.eventRecord = ~atReport.eventDone
       /\ ~eventRecord

C6_Witness ==
    /\ EventGoneConfirmsFailed
    /\ deleteOut.state = "rejected"
    /\ atReport.eventRecord /\ ~atReport.eventDone
    /\ ~eventRecord /\ HasConfirms(responses)

\* C7: whenever deleteEvent has fulfilled, neither the event record nor any
\* ConfirmRecord of this id is left in the stores.
C7_FulfilledMeansGone ==
    deleteOut.state = "fulfilled"
    => /\ ~eventRecord
       /\ ~HasConfirms(responses)

C7_Witness ==
    /\ deleteOut.state = "fulfilled"
    /\ atCall.eventRecord /\ atCall.hasConfirms
    /\ ~eventRecord /\ ~HasConfirms(responses)

\* C8: the error deleteEvent reports tells a partial deletion from a clean
\* failure: a call that reports the same error value, for the failure of the
\* same deletion, as the previous failed call did is not a clean failure
\* after a partial deletion, nor a partial deletion after a clean failure.
C8_Distinguishable ==
    (/\ Settled(deleteEventPromise) /\ Settled(deleteConfirmsPromise)
     /\ deleteOut.state = "rejected")
    => \A a \in seen :
          (a.report = deleteOut.value /\ a.origin = atReport.origin)
          => {a.kind, FailureKind} # {"partial", "clean"}

\* ---------------------------------------------------------------- getStatus: properties
\* C1: for a non-instant event, a call whose clock reads lie in
\* scheduledTime <= now <= scheduledTime + margin (both ends included)
\* returns "happening".
C1_HappeningInclusive ==
    (st.called /\ ~ev.instant
        /\ ev.time.ms <= st.now1 /\ st.now2 <= ev.time.ms + margin)
    => st.result.status = "happening"

\* C2: for a non-instant event, a call made at now > scheduledTime + margin
\* returns "expired".
C2_ExpiredAfterMargin ==
    (st.called /\ ~ev.instant /\ st.now1 > ev.time.ms + margin)
    => st.result.status = "expired"

C2_Witness ==
    /\ st.called /\ ~ev.instant /\ margin > 0
    /\ st.now1 = ev.time.ms + margin + 1
    /\ st.result.status = "expired"

\* C3: for a non-instant event, a call made at now < scheduledTime returns
\* "pending", whatever the margin.
C3_PendingBefore ==
    (st.called /\ ~ev.instant /\ ev.time.ms > st.now1)
    => st.result.status = "pending"

C3_Witness ==
    /\ st.called /\ ~ev.instant /\ margin > 0
    /\ ev.time.ms = st.now1 + 1
    /\ st.result.status = "pending"

\* C4: for an instant event every call returns "expired", at every clock
\* value and margin, without dereferencing the (null) time.
C4_InstantExpired ==
    (st.called /\ ev.instant)
    => /\ st.result.status = "expired"
       /\ st.result.timeReads = 0

C4_Witness ==
    /\ st.called /\ ev.instant /\ ev.time = NullTime
    /\ margin > 0 /\ st.now1 > 0
    /\ st.result.status = "expired"
\* C15: every constructed ScheduledEvent has time == null exactly when
\* instant is true; otherwise time is the moment of the time argument.
C15_NullTimeIffInstant ==
    /\ ev.time = NullTime <=> ev.instant
    /\ ~ev.instant => ev.time \in {unix(t) : t \in 0..MaxUnixTime}

C15_Witness ==
    /\ ev.instant /\ ev.time = NullTime
    /\ st.called /\ st.result.timeReads = 0
Rank(status) ==
    CASE status = "pending"   -> 1
      [] status = "happening" -> 2
      [] status = "expired"   -> 3

\* C19: for one event and one margin, the statuses returned by successive
\* getStatus calls only move forward: pending, then happening, then expired
\* (stages may be skipped), never back.
C19_StatusOnlyAdvances ==
    (st.called /\ st.prev # "none")
    => Rank(st.prev) <= Rank(st.result.status)

C19_Witness ==
    /\ st.called /\ ~ev.instant /\ margin > 0
    /\ st.prev = "happening"
    /\ st.result.status = "expired"
====
